---- MODULE Spec2Model ----
(***************************************************************************)
(* Model of two TVM IR passes and the analysis they share:                 *)
(*   src/src/pass/split_host_device.cc  IRUseDefAnalysis,                  *)
(*                                      HostDeviceSplitter, UndefinedVars  *)
(*   src/src/pass/inline.cc             IRInline, Inline                   *)
(*                                                                         *)
(* The passes are recursive tree rewriters.  The recursion is modelled by  *)
(* an explicit continuation stack: `stack` holds the visits still to do    *)
(* (head = next), `vals` the results already returned (head = most         *)
(* recent).  One action is one visit handler, or the part of a handler     *)
(* that runs between two recursive calls.                                  *)
(*                                                                         *)
(* A tree node is a record [k, v, a, i, c]: k the node kind, v the         *)
(* variable (or function name, or literal) it carries, a its attribute     *)
(* (attr_key, call_type, dtype), i its value_index, c its children.        *)
(* A variable's identity is its name.  A result is [t, same]: the tree     *)
(* returned and whether it is the very object that was visited (same_as).  *)
(***************************************************************************)
EXTENDS Integers, Sequences, FiniteSets, TLC

VARIABLES
  pc,                 \* "idle" | "run" | "done" | "failed"
  call,               \* the public operation in progress and its arguments
  stack,              \* continuation stack of the rewriters
  vals,               \* results returned by finished visits
  m,                  \* the IRUseDefAnalysis object of the current analysis
  name_,              \* HostDeviceSplitter::name_
  device_funcs_,      \* HostDeviceSplitter::device_funcs_
  handle_data_type_,  \* HostDeviceSplitter::handle_data_type_
  stmt,               \* Inline's parameter stmt after std::move(stmt)
  ssa,                \* number of ConvertSSA invocations made by Inline
  ret,                \* value returned by the public operation
  err,                \* the failed CHECK, "" if none
  log,                \* history: the seed / def / use / axis events of the analysis
  extracted           \* history: the regions handed to SplitDeviceFunc

vars == <<pc, call, stack, vals, m, name_, device_funcs_, handle_data_type_,
          stmt, ssa, ret, err, log, extracted>>

----------------------------------------------------------------------------
(* Bounds of the model *)

\* wrappers nested around a leaf statement in an analysed tree
MaxNest == 2
\* formal parameters of the inlined function
MaxArgs == 2

----------------------------------------------------------------------------
(* Tree nodes *)

Node(k, v, a, i, c) == [k |-> k, v |-> v, a |-> a, i |-> i, c |-> c]

Var(v)               == Node("Var", v, "", 0, <<>>)
Imm(v)               == Node("Imm", v, "", 0, <<>>)
Load(buf, index)     == Node("Load", buf, "", 0, <<index>>)
Call(f, type, i, as) == Node("Call", f, type, i, as)
Let(v, value, body)  == Node("Let", v, "", 0, <<value, body>>)

Store(buf, value, index)   == Node("Store", buf, "", 0, <<value, index>>)
Evaluate(value)            == Node("Evaluate", "", "", 0, <<value>>)
LetStmt(v, value, body)    == Node("LetStmt", v, "", 0, <<value, body>>)
For(v, min, extent, body)  == Node("For", v, "", 0, <<min, extent, body>>)
Allocate(v, dtype, extent, body) == Node("Allocate", v, dtype, 0, <<extent, body>>)
AttrStmt(node, key, value, body) == Node("AttrStmt", node, key, 0, <<value, body>>)
SeqStmt(ss)                == Node("Seq", "", "", 0, ss)

NullRef == Node("null", "", "", 0, <<>>)

StmtKinds == {"Store", "Evaluate", "LetStmt", "For", "Allocate", "AttrStmt", "Seq"}

\* Var::dtype().is_handle()
Handles == {"A", "B"}
is_handle(v) == v \in Handles

EmptyMap == [x \in {} |-> 0]

SeqToSet(s) == {s[j] : j \in 1..Len(s)}

RECURSIVE SelectSeq2(_, _)
\* the elements of s that are handles (h = TRUE) or are not (h = FALSE), in order
SelectSeq2(s, h) ==
  IF s = <<>> THEN <<>>
  ELSE IF is_handle(Head(s)) = h THEN <<Head(s)>> \o SelectSeq2(Tail(s), h)
       ELSE SelectSeq2(Tail(s), h)

----------------------------------------------------------------------------
(* Collaborators declared in tvm/ir_pass.h and tvm/ir_functor_ext.h *)

\* Call::is_pure(): the call types without side effect
PureCallTypes == {"Halide", "PureIntrinsic", "PureExtern"}

RECURSIVE HasSideEffect(_)
HasSideEffect(e) ==
  \/ e.k = "Call" /\ e.a \notin PureCallTypes
  \/ \E j \in 1..Len(e.c) : HasSideEffect(e.c[j])

RECURSIVE Substitute(_, _)
\* Substitute(expr, vmap): every Variable in DOMAIN vmap replaced by its image
Substitute(e, vmap) ==
  IF e.k = "Var"
    THEN IF e.v \in DOMAIN vmap THEN vmap[e.v] ELSE e
    ELSE [e EXCEPT !.c = [j \in 1..Len(e.c) |-> Substitute(e.c[j], vmap)]]

\* ConvertSSA(stmt): the renamed tree, left uninterpreted
ConvertSSA(s) == Node("ConvertSSA", "", "", 0, <<s>>)

\* The children the base mutator visits, in visiting order.  StmtMutator
\* (the base of HostDeviceSplitter) leaves expressions alone.
ChildOrder(who, node) ==
  LET all == [j \in 1..Len(node.c) |-> j]
  IN  IF who = "HostDeviceSplitter"
        THEN SelectSeq(all, LAMBDA j : node.c[j].k \in StmtKinds)
        ELSE all

----------------------------------------------------------------------------
(* Input trees: up to MaxNest wrappers around a leaf statement *)

h(e) == Call("h", "Extern", 0, <<e>>)

\* a thread_extent region, and one whose extent is bound by a LetStmt
Regions ==
  { AttrStmt("tx", "thread_extent", Var("n"), Store("B", Var("i"), Var("tx"))),
    LetStmt("x", Var("n"),
            AttrStmt("tx", "thread_extent", Var("x"), Store("B", Var("i"), Var("tx")))) }

Leaves ==
  { Store("A", Var("x"), Var("tx")),
    Store("B", Load("A", Var("i")), Var("n")),
    Evaluate(Let("y", Var("n"), Var("y"))),
    Evaluate(Let("y", Var("x"), Imm("0"))),
    Evaluate(Let("y", h(Var("n")), Imm("0"))) } \cup Regions

Siblings ==
  { Store("A", Var("x"), Var("tx")),
    AttrStmt("tx", "thread_extent", Var("n"), Store("B", Var("i"), Var("tx"))) }

Wrappers ==
     [w : {"LetStmt"}, v : {"x"}, a : {""}, e : {Var("n"), h(Var("n"))}]
  \cup [w : {"For"}, v : {"i"}, a : {""}, e : {Var("n")}]
  \cup [w : {"Allocate"}, v : {"B"}, a : {"float32"}, e : {Var("n")}]
  \cup [w : {"AttrStmt"}, v : {"tx"}, a : {"thread_extent"}, e : {Var("n")}]
  \cup [w : {"AttrStmt"}, v : {""}, a : {"device_scope", "pipeline_exec_scope"},
        e : {Imm("0")}]
  \cup [w : {"AttrStmt"}, v : {"B"}, a : {"storage_scope"}, e : {Imm("0")}]
  \cup [w : {"Seq"}, v : {""}, a : {""}, e : Siblings]

Wrap(w, s) ==
  CASE w.w = "LetStmt"  -> LetStmt(w.v, w.e, s)
    [] w.w = "For"      -> For(w.v, Imm("0"), w.e, s)
    [] w.w = "Allocate" -> Allocate(w.v, w.a, w.e, s)
    [] w.w = "AttrStmt" -> AttrStmt(w.v, w.a, w.e, s)
    [] w.w = "Seq"      -> SeqStmt(<<w.e, s>>)

RECURSIVE Trees(_)
Trees(d) ==
  IF d = 0 THEN Leaves
  ELSE LET sub == Trees(d - 1) IN sub \cup {Wrap(w, s) : w \in Wrappers, s \in sub}

Stmts == Trees(MaxNest)

\* the args UndefinedVars is called with
SeedInputs == {<<>>, <<"A", "n">>, <<"tx", "x">>}

----------------------------------------------------------------------------
(* IRUseDefAnalysis: the tables *)

UD == "IRUseDefAnalysis"
HS == "HostDeviceSplitter"
INL == "IRInline"

NewAnalysis ==
  [ visit_thread_extent_ |-> TRUE, undefined_ |-> <<>>, thread_axis_ |-> <<>>,
    thread_extent_ |-> <<>>, use_count_ |-> EmptyMap, def_count_ |-> EmptyMap ]

\* variant: the two CHECKs in the opposite order
HandleDefCheck_UseFirst(a, v) ==
  IF v \in DOMAIN a.use_count_ THEN "UseBeforeDefError"
  ELSE IF v \in DOMAIN a.def_count_ THEN "RedefinitionError"
  ELSE ""

\* the CHECK of HandleDef that fails, "" if none does
HandleDefCheck(a, v) ==
  IF v \in DOMAIN a.def_count_ THEN "RedefinitionError"
  ELSE IF v \in DOMAIN a.use_count_ THEN "UseBeforeDefError"
  ELSE ""

HandleDef(a, v) ==
  [a EXCEPT !.use_count_ = (v :> 0) @@ @, !.def_count_ = (v :> 1) @@ @]

\* variant: a free use that leaves no sentinel behind
HandleUse_NoSentinel(a, v) ==
  IF v \in DOMAIN a.use_count_ /\ a.use_count_[v] >= 0
    THEN [a EXCEPT !.use_count_[v] = @ + 1]
    ELSE [a EXCEPT !.undefined_ = Append(@, v)]

HandleUse(a, v) ==
  IF v \in DOMAIN a.use_count_
    THEN IF a.use_count_[v] >= 0 THEN [a EXCEPT !.use_count_[v] = @ + 1] ELSE a
    ELSE [a EXCEPT !.undefined_ = Append(@, v), !.use_count_ = (v :> -1) @@ @]

\* variant: the first appearance looked up in def_count_
FirstAppearance_ByDef(a, v) == v \notin DOMAIN a.def_count_

\* thread_extent: "use the first appearance as def"
FirstAppearance(a, v) == v \notin DOMAIN a.use_count_

\* "eliminate unreferenced let"
Unreferenced(a, op) == a.use_count_[op.v] = 0 /\ ~HasSideEffect(op.c[1])

\* UndefinedVars: m.use_count_[arg.get()] = 0 for every arg
Seeded(args) ==
  [NewAnalysis EXCEPT !.use_count_ = [v \in SeqToSet(args) |-> 0]]

----------------------------------------------------------------------------
(* The rewriting machine *)

Frame(op, who, node) == [op |-> op, who |-> who, node |-> node]
Result(t, same)      == [t |-> t, same |-> same]
Event(e, v)          == [e |-> e, v |-> v]

NoCall == [op |-> "", stmt |-> NullRef, args |-> <<>>, f |-> NullRef,
           body |-> NullRef, round |-> FALSE]

At(op, who, kinds) ==
  /\ pc = "run"
  /\ stack # <<>>
  /\ Head(stack).op = op
  /\ Head(stack).who = who
  /\ Head(stack).node.k \in kinds

splitVars  == <<name_, device_funcs_, handle_data_type_, extracted>>
inlineVars == <<stmt, ssa>>

Fail(e) ==
  /\ pc' = "failed"
  /\ err' = e
  /\ UNCHANGED <<call, stack, vals, m, splitVars, inlineVars, ret, log>>

Overridden(who, k) ==
  CASE who = UD -> k \in {"AttrStmt", "LetStmt", "For", "Allocate", "Store",
                          "Let", "Var", "Load"}
    [] who = HS -> k \in {"Allocate", "AttrStmt"}
    [] who = INL -> k = "Call"

\* StmtExprMutator / StmtMutator: visit the children, then rebuild
VisitDefault ==
  /\ pc = "run" /\ stack # <<>>
  /\ LET fr == Head(stack)
         ord == ChildOrder(fr.who, fr.node)
     IN  /\ \/ fr.op = "default"
            \/ fr.op = "visit" /\ ~Overridden(fr.who, fr.node.k)
         /\ IF ord = <<>>
              THEN /\ vals' = <<Result(fr.node, TRUE)>> \o vals
                   /\ stack' = Tail(stack)
              ELSE /\ vals' = vals
                   /\ stack' = [j \in 1..Len(ord) |->
                                  Frame("visit", fr.who, fr.node.c[ord[j]])]
                               \o <<Frame("build", fr.who, fr.node)>>
                               \o Tail(stack)
  /\ UNCHANGED <<pc, call, m, splitVars, inlineVars, ret, err, log>>

\* the node rebuilt from the children's results: the node itself when every
\* child came back as the same object
Rebuilt(who, node, rs) ==
  LET ord == ChildOrder(who, node)
      n   == Len(ord)
      res(p) == rs[n - p + 1]
      pos(j) == CHOOSE p \in 1..n : ord[p] = j
  IN  IF \A p \in 1..n : res(p).same
        THEN Result(node, TRUE)
        ELSE Result([node EXCEPT !.c =
                       [j \in 1..Len(node.c) |->
                          IF \E p \in 1..n : ord[p] = j THEN res(pos(j)).t
                          ELSE node.c[j]]], FALSE)

BuildDefault ==
  /\ pc = "run" /\ stack # <<>>
  /\ Head(stack).op = "build"
  /\ LET fr == Head(stack)
         n  == Len(ChildOrder(fr.who, fr.node))
     IN  /\ vals' = <<Rebuilt(fr.who, fr.node, SubSeq(vals, 1, n))>>
                    \o SubSeq(vals, n + 1, Len(vals))
         /\ stack' = Tail(stack)
  /\ UNCHANGED <<pc, call, m, splitVars, inlineVars, ret, err, log>>

----------------------------------------------------------------------------
(* IRUseDefAnalysis: the visit handlers *)

\* VisitExpr_(Variable), VisitExpr_(Load), VisitStmt_(Store):
\* HandleUse, then the base visit
UseThenDefault(kind) ==
  /\ At("visit", UD, {kind})
  /\ LET op == Head(stack).node
     IN  /\ m' = HandleUse(m, op.v)
         /\ log' = Append(log, Event("use", op.v))
         /\ stack' = <<Frame("default", UD, op)>> \o Tail(stack)
  /\ UNCHANGED <<pc, call, vals, splitVars, inlineVars, ret, err>>

VisitExpr_Variable == UseThenDefault("Var")
VisitExpr_Load     == UseThenDefault("Load")
VisitStmt_Store    == UseThenDefault("Store")

\* VisitStmt_(For), VisitStmt_(Allocate): HandleDef, then the base visit
DefThenDefault(kind) ==
  /\ At("visit", UD, {kind})
  /\ LET op == Head(stack).node
     IN  IF HandleDefCheck(m, op.v) # ""
           THEN Fail(HandleDefCheck(m, op.v))
           ELSE /\ m' = HandleDef(m, op.v)
                /\ log' = Append(log, Event("def", op.v))
                /\ stack' = <<Frame("default", UD, op)>> \o Tail(stack)
                /\ UNCHANGED <<pc, call, vals, splitVars, inlineVars, ret, err>>

VisitStmt_For      == DefThenDefault("For")
VisitStmt_Allocate == DefThenDefault("Allocate")

\* VisitStmt_(LetStmt), VisitExpr_(Let): HandleDef, then the body
LetEnter(kind) ==
  /\ At("visit", UD, {kind})
  /\ LET op == Head(stack).node
     IN  IF HandleDefCheck(m, op.v) # ""
           THEN Fail(HandleDefCheck(m, op.v))
           ELSE /\ m' = HandleDef(m, op.v)
                /\ log' = Append(log, Event("def", op.v))
                /\ stack' = <<Frame("visit", UD, op.c[2]), Frame("letExit", UD, op)>>
                            \o Tail(stack)
                /\ UNCHANGED <<pc, call, vals, splitVars, inlineVars, ret, err>>

\* ... after the body: return it alone, or go on to the value
LetExit(kind) ==
  /\ At("letExit", UD, {kind})
  /\ LET op   == Head(stack).node
         body == Head(vals)
     IN  IF Unreferenced(m, op)
           THEN /\ vals' = <<Result(body.t, FALSE)>> \o Tail(vals)
                /\ stack' = Tail(stack)
           ELSE /\ vals' = vals
                /\ stack' = <<Frame("visit", UD, op.c[1]), Frame("letBuild", UD, op)>>
                            \o Tail(stack)
  /\ UNCHANGED <<pc, call, m, splitVars, inlineVars, ret, err, log>>

\* ... after the value: the node itself, or LetStmt::make / Let::make
LetBuild(kind) ==
  /\ At("letBuild", UD, {kind})
  /\ LET op    == Head(stack).node
         value == vals[1]
         body  == vals[2]
     IN  /\ vals' = <<IF body.same /\ value.same
                        THEN Result(op, TRUE)
                        ELSE Result([op EXCEPT !.c = <<value.t, body.t>>], FALSE)>>
                    \o SubSeq(vals, 3, Len(vals))
         /\ stack' = Tail(stack)
  /\ UNCHANGED <<pc, call, m, splitVars, inlineVars, ret, err, log>>

VisitStmt_LetStmt       == LetEnter("LetStmt")
VisitStmt_LetStmt_Exit  == LetExit("LetStmt")
VisitStmt_LetStmt_Build == LetBuild("LetStmt")
VisitExpr_Let           == LetEnter("Let")
VisitExpr_Let_Exit      == LetExit("Let")
VisitExpr_Let_Build     == LetBuild("Let")

\* VisitStmt_(AttrStmt), thread_extent: the first appearance defines the
\* variable and records the axis and its extent
ThreadExtentDef(a, op) ==
  [HandleDef(a, op.v) EXCEPT !.thread_axis_ = Append(@, op.v),
                             !.thread_extent_ = Append(@, op.c[1])]

VisitStmt_AttrStmt ==
  /\ At("visit", UD, {"AttrStmt"})
  /\ LET op == Head(stack).node
     IN  IF op.a = "thread_extent"
           THEN IF FirstAppearance(m, op.v) /\ HandleDefCheck(m, op.v) # ""
                  THEN Fail(HandleDefCheck(m, op.v))
                  ELSE /\ m' = IF FirstAppearance(m, op.v)
                                 THEN ThreadExtentDef(m, op) ELSE m
                       /\ log' = log \o <<Event("axis", op.v)>>
                                   \o (IF FirstAppearance(m, op.v)
                                         THEN <<Event("def", op.v)>> ELSE <<>>)
                       /\ stack' = (IF m.visit_thread_extent_
                                      THEN <<Frame("visit", UD, op.c[1])>> ELSE <<>>)
                                   \o <<Frame("visit", UD, op.c[2]),
                                        Frame("attrBuild", UD, op)>>
                                   \o Tail(stack)
                       /\ UNCHANGED <<pc, call, vals, splitVars, inlineVars, ret, err>>
           ELSE /\ stack' = <<Frame("default", UD, op)>> \o Tail(stack)
                /\ UNCHANGED <<pc, call, vals, m, splitVars, inlineVars, ret, err, log>>

\* ... after value and body: the node itself, or AttrStmt::make
VisitStmt_AttrStmt_Build ==
  /\ At("attrBuild", UD, {"AttrStmt"})
  /\ LET op    == Head(stack).node
         body  == vals[1]
         value == IF m.visit_thread_extent_ THEN vals[2] ELSE Result(op.c[1], TRUE)
         used  == IF m.visit_thread_extent_ THEN 2 ELSE 1
     IN  /\ vals' = <<IF value.same /\ body.same
                        THEN Result(op, TRUE)
                        ELSE Result([op EXCEPT !.c = <<value.t, body.t>>], FALSE)>>
                    \o SubSeq(vals, used + 1, Len(vals))
         /\ stack' = Tail(stack)
  /\ UNCHANGED <<pc, call, m, splitVars, inlineVars, ret, err, log>>

----------------------------------------------------------------------------
(* UndefinedVars *)

StartUndefinedVars(s, args, round) ==
  /\ call' = [NoCall EXCEPT !.op = "UndefinedVars", !.stmt = s, !.args = args,
                            !.round = round]
  /\ m' = Seeded(args)
  /\ log' = [j \in 1..Len(args) |-> Event("seed", args[j])]
  /\ stack' = <<Frame("visit", UD, s), Frame("return", UD, NullRef)>>
  /\ vals' = <<>>
  /\ pc' = "run"
  /\ ret' = <<>>
  /\ UNCHANGED <<splitVars, inlineVars, err>>

UndefinedVars ==
  /\ pc = "idle"
  /\ \E s \in Stmts, args \in SeedInputs : StartUndefinedVars(s, args, FALSE)

UndefinedVars_Return ==
  /\ At("return", UD, {"null"})
  /\ ret' = m.undefined_
  /\ pc' = "done"
  /\ stack' = Tail(stack)
  /\ vals' = Tail(vals)
  /\ UNCHANGED <<call, m, splitVars, inlineVars, err, log>>

----------------------------------------------------------------------------
(* HostDeviceSplitter *)

BoundaryKeys == {"thread_extent", "pipeline_exec_scope", "device_scope"}

LoweredFunc(name, body, args, func_type, thread_axis, hdt) ==
  [name |-> name, body |-> body, args |-> args, func_type |-> func_type,
   thread_axis |-> thread_axis, handle_data_type |-> hdt]

\* the functions Split is called with
Funcs ==
  { LoweredFunc("f", b, <<"A", "B", "n">>, t, <<>>, ("A" :> "float32")) :
      b \in Stmts, t \in {"kMixedFunc", "kHostFunc"} }

\* variant: the index taken after the function is appended
KernelName_OneBased(name, size) == name \o "_kernel" \o ToString(size + 1)

\* os << name_ << "_kernel" << device_funcs_.size()
KernelName(name, size) == name \o "_kernel" \o ToString(size)

\* variant: the two loops in the opposite order
KernelArgs_ScalarsFirst(undefined) ==
  SelectSeq2(undefined, FALSE) \o SelectSeq2(undefined, TRUE)

\* "Strictly order the arguments: Var pointers, positional arguments."
KernelArgs(undefined) == SelectSeq2(undefined, TRUE) \o SelectSeq2(undefined, FALSE)

\* "mark handle data type."
KernelHandleTypes(undefined, hdt) ==
  [v \in {u \in SeqToSet(undefined) : is_handle(u) /\ u \in DOMAIN hdt} |-> hdt[v]]

\* call_args: the name, the kernel arguments, the thread extents
CallArgs(name, args, thread_extent) ==
  <<Imm(name)>> \o [j \in 1..Len(args) |-> Var(args[j])] \o thread_extent

Split ==
  /\ pc = "idle"
  /\ \E f \in Funcs :
       /\ call' = [NoCall EXCEPT !.op = "Split", !.stmt = f.body, !.f = f]
       /\ IF f.func_type # "kMixedFunc"
            THEN /\ pc' = "failed"
                 /\ err' = "AlreadySplitError"
                 /\ UNCHANGED <<stack, splitVars>>
            ELSE /\ pc' = "run"
                 /\ err' = err
                 /\ handle_data_type_' = f.handle_data_type
                 /\ name_' = f.name
                 /\ stack' = <<Frame("visit", HS, f.body), Frame("return", HS, NullRef)>>
                 /\ UNCHANGED <<device_funcs_, extracted>>
  /\ UNCHANGED <<vals, m, inlineVars, ret, log>>

Split_Return ==
  /\ At("return", HS, {"null"})
  /\ ret' = <<[call.f EXCEPT !.body = Head(vals).t, !.func_type = "kHostFunc"]>>
            \o device_funcs_
  /\ pc' = "done"
  /\ stack' = Tail(stack)
  /\ vals' = Tail(vals)
  /\ UNCHANGED <<call, m, splitVars, inlineVars, err, log>>

VisitStmt_Allocate_Splitter ==
  /\ At("visit", HS, {"Allocate"})
  /\ LET op == Head(stack).node
     IN  /\ handle_data_type_' = (op.v :> op.a) @@ handle_data_type_
         /\ stack' = <<Frame("default", HS, op)>> \o Tail(stack)
  /\ UNCHANGED <<pc, call, vals, m, name_, device_funcs_, extracted, inlineVars,
                 ret, err, log>>

\* VisitStmt_(AttrStmt) with SplitDeviceFunc up to m(std::move(body))
VisitStmt_AttrStmt_Splitter ==
  /\ At("visit", HS, {"AttrStmt"})
  /\ LET op == Head(stack).node
     IN  IF op.a \in BoundaryKeys
           THEN /\ m' = [NewAnalysis EXCEPT !.visit_thread_extent_ = FALSE]
                /\ log' = <<>>
                /\ extracted' = Append(extracted, op)
                /\ stack' = <<Frame("visit", UD, op), Frame("split", HS, op)>>
                            \o Tail(stack)
           ELSE /\ stack' = <<Frame("default", HS, op)>> \o Tail(stack)
                /\ UNCHANGED <<m, log, extracted>>
  /\ UNCHANGED <<pc, call, vals, name_, device_funcs_, handle_data_type_,
                 inlineVars, ret, err>>

\* SplitDeviceFunc after the analysis: the device function and the stub
SplitDeviceFunc ==
  /\ At("split", HS, {"AttrStmt"})
  /\ LET name == KernelName(name_, Len(device_funcs_))
         args == KernelArgs(m.undefined_)
         n    == LoweredFunc(name, Head(vals).t, args, "kDeviceFunc", m.thread_axis_,
                             KernelHandleTypes(m.undefined_, handle_data_type_))
     IN  /\ device_funcs_' = Append(device_funcs_, n)
         /\ vals' = <<Result(Evaluate(Call("tvm_call_packed", "Intrinsic", 0,
                                           CallArgs(name, args, m.thread_extent_))),
                             FALSE)>>
                    \o Tail(vals)
         /\ stack' = Tail(stack)
  /\ UNCHANGED <<pc, call, m, name_, handle_data_type_, extracted, inlineVars,
                 ret, err, log>>

\* FreeVariables of an extracted kernel, seeded with the kernel's parameters
UndefinedVars_Kernel ==
  /\ pc = "done"
  /\ call.op = "Split"
  /\ \E j \in 2..Len(ret) : StartUndefinedVars(ret[j].body, ret[j].args, TRUE)

----------------------------------------------------------------------------
(* IRInline and Inline *)

ParamNames == <<"p", "q", "r", "s">>

\* the formal parameters and the body of the inlined function
Formals(n)    == SubSeq(ParamNames, 1, n)
BodyOf(n)     == Call("add", "PureIntrinsic", 0, [j \in 1..n |-> Var(ParamNames[j])])

\* the functions Inline is called with: [name, num_outputs]
FunctionRefs == [name : {"f"}, num_outputs : {1, 2}]

Actuals == {Var("n"), Imm("1"), h(Var("x")), Call("f", "Halide", 0, <<Var("n")>>)}

CallSites ==
  { Call(fn, "Halide", i, as) :
      fn \in {"f", "g"}, i \in {0, 1},
      as \in UNION {[1..n -> Actuals] : n \in 1..MaxArgs} }

InlineStmts ==
  {Evaluate(e) : e \in CallSites} \cup {Store("A", e, Var("n")) : e \in CallSites}

\* what a moved-from stmt may hold when it is read again: ObjectRef's move
\* constructor leaves it null, a mutator taking a reference leaves it intact
MovedFrom(s) == {NullRef, s}

same_as(r, s) == r.same /\ s # NullRef

RECURSIVE LetChain(_, _, _, _)
\* for (i = 0; i < args_.size(); ++i) expr = Let::make(args_[i], op->args[i], expr)
LetChain(args, actuals, expr, i) ==
  IF i > Len(args) THEN expr
  ELSE LetChain(args, actuals, Let(args[i], actuals[i], expr), i + 1)

\* the expression that replaces a call of f_
InlinedCall(args, body, actuals) ==
  IF \E j \in 1..Len(actuals) : HasSideEffect(actuals[j])
    THEN LetChain(args, actuals, body, 1)
    ELSE Substitute(body, [v \in SeqToSet(args) |->
                             actuals[CHOOSE j \in 1..Len(args) :
                                       /\ args[j] = v
                                       /\ \A l \in j + 1..Len(args) : args[l] # v]])

Inline ==
  /\ pc = "idle"
  /\ \E s \in InlineStmts, f \in FunctionRefs, n \in 1..MaxArgs :
       /\ call' = [NoCall EXCEPT !.op = "Inline", !.stmt = s, !.f = f,
                                 !.args = Formals(n), !.body = BodyOf(n)]
       /\ IF f.num_outputs # 1
            THEN /\ pc' = "failed"
                 /\ err' = "MultiOutputInlineError"
                 /\ UNCHANGED <<stack, stmt>>
            ELSE /\ pc' = "run"
                 /\ err' = err
                 /\ stack' = <<Frame("visit", INL, s), Frame("return", INL, NullRef)>>
                 /\ stmt' \in MovedFrom(s)
  /\ UNCHANGED <<vals, m, splitVars, ssa, ret, log>>

Inline_Return ==
  /\ At("return", INL, {"null"})
  /\ IF same_as(Head(vals), stmt)
       THEN ret' = Head(vals) /\ ssa' = ssa
       ELSE ret' = Result(ConvertSSA(Head(vals).t), FALSE) /\ ssa' = ssa + 1
  /\ pc' = "done"
  /\ stack' = Tail(stack)
  /\ vals' = Tail(vals)
  /\ UNCHANGED <<call, m, splitVars, stmt, err, log>>

\* VisitExpr_(Call): the base visit first
VisitExpr_Call ==
  /\ At("visit", INL, {"Call"})
  /\ stack' = <<Frame("default", INL, Head(stack).node),
                Frame("inline", INL, Head(stack).node)>> \o Tail(stack)
  /\ UNCHANGED <<pc, call, vals, m, splitVars, inlineVars, ret, err, log>>

\* ... then the call of f_ replaced
VisitExpr_Call_Inline ==
  /\ At("inline", INL, {"Call"})
  /\ LET op == Head(vals).t
     IN  IF op.v = call.f.name
           THEN IF op.i # 0 THEN Fail("InvalidOutputIndexError")
                ELSE IF Len(call.args) # Len(op.c) THEN Fail("ArityMismatchError")
                ELSE /\ vals' = <<Result(InlinedCall(call.args, call.body, op.c), FALSE)>>
                                \o Tail(vals)
                     /\ stack' = Tail(stack)
                     /\ UNCHANGED <<pc, call, m, splitVars, inlineVars, ret, err, log>>
           ELSE /\ stack' = Tail(stack)
                /\ UNCHANGED <<pc, call, vals, m, splitVars, inlineVars, ret, err, log>>

----------------------------------------------------------------------------

Init ==
  /\ pc = "idle"
  /\ call = NoCall
  /\ stack = <<>>
  /\ vals = <<>>
  /\ m = NewAnalysis
  /\ name_ = ""
  /\ device_funcs_ = <<>>
  /\ handle_data_type_ = EmptyMap
  /\ stmt = NullRef
  /\ ssa = 0
  /\ ret = <<>>
  /\ err = ""
  /\ log = <<>>
  /\ extracted = <<>>

Next ==
  \/ VisitDefault
  \/ BuildDefault
  \/ VisitExpr_Variable
  \/ VisitExpr_Load
  \/ VisitStmt_Store
  \/ VisitStmt_For
  \/ VisitStmt_Allocate
  \/ VisitStmt_LetStmt
  \/ VisitStmt_LetStmt_Exit
  \/ VisitStmt_LetStmt_Build
  \/ VisitExpr_Let
  \/ VisitExpr_Let_Exit
  \/ VisitExpr_Let_Build
  \/ VisitStmt_AttrStmt
  \/ VisitStmt_AttrStmt_Build
  \/ UndefinedVars
  \/ UndefinedVars_Return
  \/ Split
  \/ Split_Return
  \/ VisitStmt_Allocate_Splitter
  \/ VisitStmt_AttrStmt_Splitter
  \/ SplitDeviceFunc
  \/ UndefinedVars_Kernel
  \/ Inline
  \/ Inline_Return
  \/ VisitExpr_Call
  \/ VisitExpr_Call_Inline

Spec == Init /\ [][Next]_vars

----------------------------------------------------------------------------
(* Vocabulary of the properties *)

NoDup(q) == \A p1, p2 \in 1..Len(q) : q[p1] = q[p2] => p1 = p2

Pos(q, v) == CHOOSE p \in 1..Len(q) : q[p] = v

RECURSIVE Refers(_, _)
\* v is referenced in t: as a variable, or as the buffer of a load or store
Refers(t, v) ==
  \/ t.k \in {"Var", "Load", "Store"} /\ t.v = v
  \/ \E j \in 1..Len(t.c) : Refers(t.c[j], v)

RECURSIVE Binds(_, _)
\* v is bound in t: by Let, LetStmt, For, Allocate or a thread_extent annotation
Binds(t, v) ==
  \/ t.k \in {"Let", "LetStmt", "For", "Allocate"} /\ t.v = v
  \/ t.k = "AttrStmt" /\ t.a = "thread_extent" /\ t.v = v
  \/ \E j \in 1..Len(t.c) : Binds(t.c[j], v)

RECURSIVE Calls(_, _)
\* t contains a call of function f
Calls(t, f) ==
  \/ t.k = "Call" /\ t.v = f
  \/ \E j \in 1..Len(t.c) : Calls(t.c[j], f)

VarNames == {"A", "B", "n", "x", "y", "i", "tx"}

IsBoundary(t) == t.k = "AttrStmt" /\ t.a \in BoundaryKeys

RECURSIVE Outermost(_)
RECURSIVE OutermostOf(_, _)
\* the boundary annotations of t not nested in another one, in source order
Outermost(t) ==
  IF IsBoundary(t) THEN <<t>> ELSE OutermostOf(t.c, 1)
OutermostOf(cs, j) ==
  IF j > Len(cs) THEN <<>> ELSE Outermost(cs[j]) \o OutermostOf(cs, j + 1)

\* events of variable v among the first j events of the log
Earlier(j, v, kinds) == \E l \in 1..j : log[l].v = v /\ log[l].e \in kinds

WasDefined(v) == Earlier(Len(log), v, {"def"})
WasSeeded(v)  == Earlier(Len(log), v, {"seed"})
Untouched(v)  == ~Earlier(Len(log), v, {"seed", "def", "use"})

\* the events at which a variable is referenced for the first time, without
\* having been seeded or bound before
FreeFirstUses ==
  SelectSeq([j \in 1..Len(log) |-> [j |-> j, v |-> log[j].v, e |-> log[j].e]],
            LAMBDA x : x.e = "use" /\ ~Earlier(x.j - 1, x.v, {"seed", "def", "use"}))

\* the thread_extent annotations met while their variable was untouched
FreshAxes ==
  SelectSeq([j \in 1..Len(log) |-> [j |-> j, v |-> log[j].v, e |-> log[j].e]],
            LAMBDA x : x.e = "axis" /\ ~Earlier(x.j - 1, x.v, {"seed", "def", "use"}))

\* every thread_extent annotation met, its variable's first one only
FirstAxes ==
  SelectSeq([j \in 1..Len(log) |-> [j |-> j, v |-> log[j].v, e |-> log[j].e]],
            LAMBDA x : x.e = "axis" /\ ~Earlier(x.j - 1, x.v, {"axis"}))

VarsOfEvents(q) == [j \in 1..Len(q) |-> q[j].v]

----------------------------------------------------------------------------
(* Inline *)

RECURSIVE FirstOutermost(_, _, _, _)
\* Let bindings nested in argument order, the first argument's outermost
FirstOutermost(args, actuals, body, i) ==
  IF i > Len(args) THEN body
  ELSE Let(args[i], actuals[i], FirstOutermost(args, actuals, body, i + 1))

\* the call Inline is given is a call of the target with the right index and
\* arity, an argument with a side effect and no inner call of the target
SideEffectSite ==
  LET site == call.stmt.c[1]
  IN  /\ call.op = "Inline"
      /\ site.v = call.f.name /\ site.i = 0 /\ Len(site.c) = Len(call.args)
      /\ \E j \in 1..Len(site.c) : HasSideEffect(site.c[j])
      /\ \A j \in 1..Len(site.c) : ~Calls(site.c[j], call.f.name)

\* C1: a call of the target with N arguments, one of them with a side
\* effect, is replaced by N nested Let bindings around the body, one per
\* formal parameter, the first argument's binding outermost and the last
\* argument's innermost, every actual argument appearing once.
C1_LetsInArgumentOrder ==
  (At("return", INL, {"null"}) /\ SideEffectSite)
    => Head(vals).t.c[1] = FirstOutermost(call.args, call.stmt.c[1].c, call.body, 1)

\* C3: when the tree holds no call of the target, Inline returns the very
\* tree it was given and does not invoke ConvertSSA; ConvertSSA is invoked
\* only when the rewritten tree is another object than the input.
C3_NoCallNoConvertSSA ==
  [][At("return", INL, {"null"}) =>
       /\ ssa' > ssa => ~Head(vals).same
       /\ ~Calls(call.stmt, call.f.name) =>
            ret'.same /\ ret'.t = call.stmt /\ ssa' = ssa]_vars

----------------------------------------------------------------------------
(* IRUseDefAnalysis *)

AtLetExit      == pc = "run" /\ stack # <<>> /\ Head(stack).op = "letExit"
AtThreadExtent == At("visit", UD, {"AttrStmt"}) /\ Head(stack).node.a = "thread_extent"
AtBinding      == At("visit", UD, {"Let", "LetStmt", "For", "Allocate"})

\* C6: with either setting of visit_thread_extent_, a Let or LetStmt is
\* replaced by its rewritten body if and only if its variable is referenced
\* nowhere in that body and its value has no side effect.
C6_RemovedIffUnreferenced ==
  [][AtLetExit =>
       LET op == Head(stack).node
       IN  (stack' = Tail(stack))
             <=> (~Refers(Head(vals).t, op.v) /\ ~HasSideEffect(op.c[1]))]_vars

\* C7: in every state the free-variable list holds no variable twice, is
\* ordered by first reference, every listed variable has a negative use
\* count and is neither defined nor seeded, and a variable seeded or bound
\* before its first reference is not listed.
C7_FreeVariableList ==
  LET U == m.undefined_
  IN  /\ NoDup(U)
      /\ U = VarsOfEvents(FreeFirstUses)
      /\ \A j \in 1..Len(U) :
           /\ U[j] \in DOMAIN m.use_count_ /\ m.use_count_[U[j]] < 0
           /\ U[j] \notin DOMAIN m.def_count_
           /\ ~WasSeeded(U[j])
      /\ \A j \in 1..Len(log) :
           (log[j].e \in {"seed", "def"} /\ ~Earlier(j - 1, log[j].v, {"use"}))
             => log[j].v \notin SeqToSet(U)

\* an analysis seeded with parameters has finished: a seeded variable was
\* referenced, and a listed variable was referenced more than once
C7_Witness ==
  /\ pc = "done" /\ call.op = "UndefinedVars" /\ call.args # <<>>
  /\ Len(m.undefined_) >= 2
  /\ \E j \in 1..Len(log) : log[j].e = "use" /\ WasSeeded(log[j].v)
  /\ \E j, l \in 1..Len(log) :
       j < l /\ log[j] = log[l] /\ log[j].e = "use" /\ log[j].v \in SeqToSet(m.undefined_)

Registered(v) ==
  /\ pc' = "run"
  /\ v \in DOMAIN m'.def_count_
  /\ v \in DOMAIN m'.use_count_ /\ m'.use_count_[v] = 0

Failed(e) == pc' = "failed" /\ err' = e /\ m' = m

\* C9 as stated: binding v fails with RedefinitionError when v is already
\* defined or seeded, with UseBeforeDefError only when v is undefined but
\* recorded as a free use, and registers v otherwise.
C9_SeededIsRedefinition ==
  [][AtBinding =>
       LET v == Head(stack).node.v
       IN  IF WasDefined(v) \/ WasSeeded(v) THEN Failed("RedefinitionError")
           ELSE IF v \in SeqToSet(m.undefined_) THEN Failed("UseBeforeDefError")
           ELSE Registered(v)]_vars

\* C9 amended: binding v fails with RedefinitionError when v is already
\* registered as defined (by a binding construct or a registering
\* thread_extent annotation), with UseBeforeDefError when v is not defined
\* but is seeded or recorded as a free use, and registers v with use count
\* 0 otherwise; so a second binding of a variable fails with
\* RedefinitionError.
C9_SeededIsUseBeforeDef ==
  [][AtBinding =>
       LET v == Head(stack).node.v
       IN  IF WasDefined(v) THEN Failed("RedefinitionError")
           ELSE IF WasSeeded(v) \/ v \in SeqToSet(m.undefined_)
                  THEN Failed("UseBeforeDefError")
           ELSE Registered(v)]_vars

\* a second binding of a variable has failed
C9_Witness ==
  /\ pc = "failed" /\ err = "RedefinitionError"
  /\ stack # <<>> /\ Head(stack).op = "visit" /\ Head(stack).who = UD
  /\ Head(stack).node.k \in {"Let", "LetStmt", "For", "Allocate"}
  /\ WasDefined(Head(stack).node.v)

----------------------------------------------------------------------------
(* HostDeviceSplitter *)

AtSplit == At("split", HS, {"AttrStmt"})

\* C2: UndefinedVars of a kernel body, seeded with the kernel's own
\* parameters, returns no free variable.
C2_KernelHasNoFreeVariable ==
  (pc = "done" /\ call.op = "UndefinedVars" /\ call.round) => ret = <<>>

\* C4: the kernel's parameters are the region's free variables, the handles
\* first and the others after, each group in first-encounter order; the
\* stub's arguments are the kernel name, these parameters in this order,
\* then the recorded thread extents, which are no kernel parameters.
C4_KernelAndStubArguments ==
  [][AtSplit =>
       LET U    == m.undefined_
           f    == device_funcs_'[Len(device_funcs_')]
           stub == Head(vals').t
           n    == Len(f.args)
       IN  /\ n = Len(U) /\ SeqToSet(f.args) = SeqToSet(U)
           /\ \A p, q \in 1..n : (p < q /\ is_handle(f.args[q])) => is_handle(f.args[p])
           /\ \A p, q \in 1..n :
                (p < q /\ is_handle(f.args[p]) = is_handle(f.args[q]))
                  => Pos(U, f.args[p]) < Pos(U, f.args[q])
           /\ stub.k = "Evaluate" /\ stub.c[1].k = "Call"
           /\ Len(stub.c[1].c) = 1 + n + Len(m.thread_extent_)
           /\ stub.c[1].c[1] = Imm(f.name)
           /\ \A p \in 1..n : stub.c[1].c[1 + p] = Var(f.args[p])
           /\ \A p \in 1..Len(m.thread_extent_) :
                stub.c[1].c[1 + n + p] = m.thread_extent_[p]]_vars

\* a region was extracted whose free variables hold two handles and two
\* scalars, a scalar met before a handle, and a thread extent
C4_Witness ==
  /\ pc = "run" /\ call.op = "Split"
  /\ device_funcs_ # <<>> /\ Len(device_funcs_) = Len(extracted)
  /\ Len(stack) > 0 /\ Head(stack).op # "split"
  /\ m.thread_extent_ # <<>>
  /\ device_funcs_[Len(device_funcs_)].args = KernelArgs(m.undefined_)
  /\ Len(SelectSeq2(m.undefined_, TRUE)) >= 2
  /\ Len(SelectSeq2(m.undefined_, FALSE)) >= 2
  /\ \E p, q \in 1..Len(m.undefined_) :
       p < q /\ ~is_handle(m.undefined_[p]) /\ is_handle(m.undefined_[q])

\* C5: Split of a Mixed function with k outermost boundary annotations
\* returns k+1 functions: the host function first, then the device
\* functions <name>_kernel0 .. <name>_kernel(k-1) of the k regions in the
\* order they are met; a nested boundary annotation yields no function.
C5_KernelsInSourceOrder ==
  (pc = "done" /\ call.op = "Split") =>
    LET R == Outermost(call.stmt)
        k == Len(R)
    IN  /\ Len(ret) = k + 1
        /\ ret[1].name = call.f.name /\ ret[1].func_type = "kHostFunc"
        /\ extracted = R
        /\ \A j \in 1..k :
             /\ ret[j + 1].func_type = "kDeviceFunc"
             /\ ret[j + 1].name = call.f.name \o "_kernel" \o ToString(j - 1)
             /\ ret[j + 1].body.k = "AttrStmt"
             /\ ret[j + 1].body.a = R[j].a /\ ret[j + 1].body.v = R[j].v

\* two regions were extracted, one of them holding a boundary annotation
C5_Witness ==
  /\ pc = "done" /\ call.op = "Split"
  /\ Len(ret) = 3
  /\ \E j \in 1..Len(extracted) :
       \E l \in 1..Len(extracted[j].c) : Outermost(extracted[j].c[l]) # <<>>

\* C10: no variable referenced by the stub's arguments is bound inside the
\* extracted region (by Let, LetStmt, For, Allocate or a thread axis).
C10_StubRefersToNoRegionVariable ==
  [][AtSplit =>
       \A v \in VarNames :
         Refers(Head(vals').t, v) => ~Binds(Head(stack).node, v)]_vars

====
